---- MODULE Spec2Model ----
(***************************************************************************)
(* LexiGraph backend: the in-memory job queue (utils/job_queue.py), the    *)
(* generation cache of AdvancedImageGenerator (models/image_generator.py)  *)
(* and the /generate route (api/routes.py) with the application lifespan   *)
(* (main.py).                                                              *)
(*                                                                         *)
(* Python values are modelled as follows.  A str is a sequence of          *)
(* one-character strings where its characters matter (the cache key), and  *)
(* a TLA+ string where only its identity matters.  None is the value None  *)
(* below; an unset timestamp is NoTime.  A dict that is shared by          *)
(* reference is an index into a heap.                                      *)
(***************************************************************************)
EXTENDS Integers, Sequences, FiniteSets, TLC

VARIABLES
    \* ---- InMemoryJobQueue (job_queue.py) ----
    jobs,               \* self.jobs: job id -> Job; ids are 1..Len(jobs)
    queue,              \* self.queue: asyncio.Queue of job ids, FIFO
    max_concurrency,    \* self.max_concurrency
    workers_started,    \* self._workers_started
    workers,            \* the _worker tasks created so far, each with its position
    now,                \* the value time.time() returns
    max_concurrent_requests, \* settings.max_concurrent_requests
    lifespan_done,      \* the startup half of main.lifespan has run
    \* ---- AdvancedImageGenerator (image_generator.py) ----
    generation_cache,   \* self.generation_cache: a dict, in insertion order
    cache_max_size,     \* self.cache_max_size
    current_scheduler,  \* self.current_scheduler
    heap,               \* the "metadata" dicts created so far, by object id
    returned,           \* the successful results callers hold
    last_call,          \* the latest generate_image call and what it returned
    n_calls,            \* the number of generate_image calls made
    \* ---- _get_cache_key on its own ----
    derive_in,          \* two parameter tuples
    derive_out,         \* their keys, once derived
    \* ---- POST /generate without the queue (routes.py) ----
    generation_semaphore, \* the permits generation_semaphore has free
    inline,             \* the requests that entered the gated section, in order
    is_loaded           \* image_generator.is_loaded

qvars == <<jobs, queue, max_concurrency, workers_started, workers, now,
           max_concurrent_requests, lifespan_done>>

cvars == <<generation_cache, cache_max_size, current_scheduler, heap, returned,
           last_call, n_calls>>

kvars == <<derive_in, derive_out>>

rvars == <<generation_semaphore, inline, is_loaded>>

vars == <<qvars, cvars, kvars, rvars>>

\* ---------------------------------------------------------------- bounds
MaxJobs == 2
MaxWorkers == 2
MaxTime == 2
MaxCacheSize == 2
MaxCalls == 3
MaxRequests == 2
MaxTimedJobs == 1

\* ---------------------------------------------------------------- values
None == "<None>"
NoTime == -1

PENDING == "pending"
RUNNING == "running"
COMPLETED == "completed"
FAILED == "failed"
CANCELLED == "cancelled"

JobStatus == {PENDING, RUNNING, COMPLETED, FAILED, CANCELLED}

Max(a, b) == IF a >= b THEN a ELSE b
Min(a, b) == IF a <= b THEN a ELSE b

\* The callables handed to submit().  "run_generation" is the closure of the
\* /generate route: it declares no parameters.  The other three accept a
\* progress_callback keyword and call generate_image: the pipeline succeeds,
\* the pipeline raises inside generate_image (which returns success = False),
\* or the model is not loaded (generate_image raises RuntimeError).
RouteFn == "run_generation"
JobFns == {RouteFn, "gen_ok", "gen_fail", "raises"}

\* The messages str(e) can give; Exception() stringifies to the empty string.
RaisedMessages == {"Advanced LexiGraph model not loaded. Call load_model() first.", ""}
TypeErrorMessage == "_run_generation() got an unexpected keyword argument 'progress_callback'"

\* The percentages a target passes to the progress callback.
ProgressArgs == {-5, 40, 150}

QueueSeeds == {42}

NoResult == [isNone |-> TRUE, success |-> FALSE, image |-> "", seed |-> 0, error |-> None]

\* What generate_image returns to a queued target: lines 506-532 on success,
\* lines 550-562 when the pipeline raises.
GenerateResult(fn, seed) ==
    IF fn = "gen_ok"
    THEN [isNone |-> FALSE, success |-> TRUE, image |-> "data:image/png;base64", seed |-> seed, error |-> None]
    ELSE [isNone |-> FALSE, success |-> FALSE, image |-> "", seed |-> 0, error |-> "pipeline error"]

\* Job.__init__ stamping started_at as well.
NewJobStarted(fn, seed, t) ==
    [fn |-> fn, seed |-> seed, status |-> PENDING, created_at |-> t,
     started_at |-> t, finished_at |-> NoTime,
     result |-> NoResult, error |-> None, progress_pct |-> 0]

\* Job.__init__
NewJob(fn, seed, t) ==
    [fn |-> fn, seed |-> seed, status |-> PENDING, created_at |-> t,
     started_at |-> NoTime, finished_at |-> NoTime,
     result |-> NoResult, error |-> None, progress_pct |-> 0]

IdleWorker == [pc |-> "get", job |-> 0]

\* ------------------------------------------------------------------- text
\* A str is the sequence of its characters; an absent Optional[str] is NoneText.
NoneText == <<None>>
NoSeed == -1

DigitChars == <<"0", "1", "2", "3", "4", "5", "6", "7", "8", "9">>

RECURSIVE IntToStr(_)
\* str(n) for an int n >= 0
IntToStr(n) ==
    IF n < 10 THEN <<DigitChars[n + 1]>>
    ELSE IntToStr(n \div 10) \o <<DigitChars[(n % 10) + 1]>>

\* str(x) of a float with one decimal, given in tenths: 75 is 7.5, 100 is 10.0
FloatToStr(tenths) == IntToStr(tenths \div 10) \o <<".">> \o IntToStr(tenths % 10)

\* What an f-string writes for an Optional[str] and an Optional[int].
FormatText(t) == IF t = NoneText THEN <<"N", "o", "n", "e">> ELSE t
FormatSeed(seed) == IF seed = NoSeed THEN <<"N", "o", "n", "e">> ELSE IntToStr(seed)

\* The default negative prompt, line 405 (shortened).
DefaultNegative == <<"l", "o", "w">>

\* _get_cache_key, line 339: the string that is digested.
cache_data(prompt, negative_prompt, width, height, steps, guidance_scale, seed, style, scheduler) ==
    prompt \o <<"_">> \o negative_prompt \o <<"_">> \o IntToStr(width) \o <<"_">>
    \o IntToStr(height) \o <<"_">> \o IntToStr(steps) \o <<"_">>
    \o FloatToStr(guidance_scale) \o <<"_">> \o FormatSeed(seed) \o <<"_">>
    \o FormatText(style) \o <<"_">> \o FormatText(scheduler)

\* hashlib.md5(...).hexdigest(): equal inputs give equal digests, and unequal
\* inputs are taken to give unequal ones.
Md5(data) == <<"md5", data>>

\* generate_image, lines 404-405
NegativeOrDefault(req) ==
    IF req.negative_prompt = NoneText THEN DefaultNegative ELSE req.negative_prompt

\* _get_cache_key, lines 335-340
_get_cache_key(prompt, negative_prompt, width, height, steps, guidance_scale, seed, style, scheduler) ==
    Md5(cache_data(prompt, negative_prompt, width, height, steps, guidance_scale,
                   seed, style, scheduler))

\* The call of _get_cache_key in generate_image, lines 410-411.
RequestKey(req) ==
    _get_cache_key(req.prompt, NegativeOrDefault(req), req.width, req.height,
                   req.steps, req.guidance_scale, req.seed, req.style, req.scheduler)

\* ------------------------------------------------------------------ cache
\* list[:stop] of a list of n elements: how many elements it has.
SliceStopLen(n, stop) == IF stop < 0 THEN Max(n + stop, 0) ELSE Min(stop, n)

\* oldest_keys taking the slice from the wrong end: keys()[self.cache_max_size:]
oldest_keys_newest(cache, max_size) ==
    [i \in 1..Max(Len(cache) - Max(max_size, 0), 0) |-> cache[Max(max_size, 0) + i].key]

\* _manage_cache, line 346: list(self.generation_cache.keys())[:-self.cache_max_size]
oldest_keys(cache, max_size) ==
    [i \in 1..SliceStopLen(Len(cache), 0 - max_size) |-> cache[i].key]

\* The keys _manage_cache deletes (none when the size test of line 344 fails).
Evicted(cache, max_size) ==
    IF Len(cache) > max_size THEN oldest_keys(cache, max_size) ELSE <<>>

\* _manage_cache, lines 344-348
_manage_cache(cache, max_size) ==
    LET gone == {Evicted(cache, max_size)[i] : i \in 1..Len(Evicted(cache, max_size))}
    IN  SelectSeq(cache, LAMBDA e : e.key \notin gone)

\* SeedAllowsCache without the test for an absent seed.
SeedAllowsCacheAlways(seed) == TRUE

\* The part of both cache conditions that looks at the seed (lines 409, 535).
SeedAllowsCache(seed) == seed # NoSeed

\* CacheConsulted without the test for a progress callback.
CacheConsultedDespiteCallback(use_cache, has_callback, seed) ==
    use_cache /\ SeedAllowsCache(seed)

\* generate_image, line 409: whether the cache is consulted.
CacheConsulted(use_cache, has_callback, seed) ==
    use_cache /\ ~has_callback /\ SeedAllowsCache(seed)

\* The result is stored after every successful generation.
CacheStoredAlways(use_cache, consulted, seed) == TRUE

\* generate_image, line 535: whether the result is stored (cache_key is None
\* when the cache was not consulted).
CacheStored(use_cache, consulted, seed) ==
    use_cache /\ consulted /\ SeedAllowsCache(seed)

CacheKeys(cache) == {cache[i].key : i \in 1..Len(cache)}
CacheIndex(cache, key) == CHOOSE i \in 1..Len(cache) : cache[i].key = key

\* The requests generate_image is called with.
CachePrompts == {<<"a">>, <<"b">>}
CacheSeeds == {NoSeed, 7, 42}
Ddim == <<"d", "d", "i", "m">>
Euler == <<"e", "u", "l", "e", "r">>
\* The names in self.schedulers (lines 83-91) that the model uses.
Schedulers == {Ddim, Euler}

\* Lines 437-438 with set_scheduler (lines 305-333): the scheduler in effect
\* after a request for `scheduler`.
SchedulerAfter(current, scheduler) ==
    IF scheduler # NoneText /\ scheduler # current /\ scheduler \in Schedulers
    THEN scheduler ELSE current

CacheRequests ==
    [prompt : CachePrompts, negative_prompt : {NoneText}, width : {512}, height : {512},
     steps : {20}, guidance_scale : {75}, seed : CacheSeeds, style : {NoneText},
     scheduler : {Ddim}, generation_mode : {"text2img"}, init_image : {FALSE}]

\* Calls that differ only in the scheduler argument, the generation mode and
\* whether an init_image is passed.
InputRequests ==
    [prompt : {<<"a">>}, negative_prompt : {NoneText}, width : {512}, height : {512},
     steps : {20}, guidance_scale : {75}, seed : {7}, style : {NoneText},
     scheduler : {NoneText, Ddim, Euler}, generation_mode : {"text2img", "img2img"},
     init_image : BOOLEAN]

\* Lines 473-498: the pipeline the call is sent to.
GenerationPath(req) ==
    IF req.generation_mode = "img2img" /\ req.init_image THEN "img2img" ELSE "text2img"

\* The image a pipeline run produces: determined by the prompt, the seed, the
\* pipeline that ran and the scheduler that pipeline was set to.
Render(req, active_scheduler) ==
    <<"image", req.prompt, req.seed, GenerationPath(req), active_scheduler>>

NoCall == [req |-> [prompt |-> <<>>, negative_prompt |-> NoneText, width |-> 0, height |-> 0,
                    steps |-> 0, guidance_scale |-> 0, seed |-> NoSeed, style |-> NoneText,
                    scheduler |-> NoneText, generation_mode |-> "text2img",
                    init_image |-> FALSE],
           use_cache |-> FALSE, has_callback |-> FALSE,
           outcome |-> "none", meta |-> 0, oldest_keys |-> <<>>,
           failure |-> <<>>]

\* AdvancedImageGenerator.__init__ (lines 52-64); the queue is as constructed
\* at import (job_queue.py line 93) and stays so.
CacheInit ==
    /\ generation_cache = <<>>
    /\ cache_max_size \in 0..MaxCacheSize
    /\ current_scheduler = Ddim
    /\ heap = <<>>
    /\ returned = {}
    /\ last_call = NoCall
    /\ n_calls = 0
    /\ derive_in = <<>>
    /\ derive_out = <<>>
    /\ jobs = <<>>
    /\ queue = <<>>
    /\ max_concurrency = 1
    /\ workers_started = FALSE
    /\ workers = <<>>
    /\ now = 0
    /\ max_concurrent_requests = 1
    /\ lifespan_done = FALSE
    /\ generation_semaphore = 1
    /\ inline = <<>>
    /\ is_loaded = FALSE

\* The metadata dict of a failure result, lines 551-561: a fresh dict without
\* the seed and cached entries.
FailureMetadata(req) ==
    [prompt |-> req.prompt, error_type |-> "Exception", generation_time |-> "generation"]

\* The metadata dict of a fresh result, lines 509-531.
NewMetadata(req) == [seed |-> req.seed, cached |-> FALSE, generation_time |-> "generation"]

\* Only the lookup time is written, the flag is left alone.
MarkLookupTime(h, m) == [h EXCEPT ![m].generation_time = "lookup"]

\* Lines 414-416: the entry's top-level dict is copied, its metadata dict is
\* not, so the writes go to the dict object the stored entry refers to.
MarkCached(h, m) == [h EXCEPT ![m].cached = TRUE, ![m].generation_time = "lookup"]

\* The entry that was hit is moved to the newest position.
AfterLookupRefreshed(cache, key) ==
    LET i == CacheIndex(cache, key) IN
    SubSeq(cache, 1, i - 1) \o SubSeq(cache, i + 1, Len(cache)) \o <<cache[i]>>

\* Lines 412-413: `cache_key in self.generation_cache` and the subscript read
\* leave the dict and its insertion order as they are.
AfterLookup(cache, key) == cache

\* generate_image, a cache hit (lines 412-417).
CachedReturn(req, use_cache, has_callback) ==
    /\ n_calls < MaxCalls
    /\ n_calls' = n_calls + 1
    /\ CacheConsulted(use_cache, has_callback, req.seed)
    /\ RequestKey(req) \in CacheKeys(generation_cache)
    /\ LET e == generation_cache[CacheIndex(generation_cache, RequestKey(req))] IN
        /\ heap' = MarkCached(heap, e.meta)
        /\ returned' = returned \cup {[outcome |-> "hit", image |-> e.image, meta |-> e.meta]}
        /\ last_call' = [req |-> req, use_cache |-> use_cache, has_callback |-> has_callback,
                         outcome |-> "hit", meta |-> e.meta, oldest_keys |-> <<>>,
                         failure |-> <<>>]
    /\ generation_cache' = AfterLookup(generation_cache, RequestKey(req))
    /\ UNCHANGED <<qvars, kvars, cache_max_size, current_scheduler>>

\* generate_image, a miss or a bypass, the pipeline succeeds (lines 419-545).
PipelineReturns(req, use_cache, has_callback) ==
    /\ n_calls < MaxCalls
    /\ n_calls' = n_calls + 1
    /\ ~(CacheConsulted(use_cache, has_callback, req.seed)
         /\ RequestKey(req) \in CacheKeys(generation_cache))
    /\ LET m == Len(heap) + 1
           image == Render(req, SchedulerAfter(current_scheduler, req.scheduler))
           stored == CacheStored(use_cache, CacheConsulted(use_cache, has_callback, req.seed), req.seed)
           inserted == Append(generation_cache,
                              [key |-> RequestKey(req), image |-> image, meta |-> m])
       IN
        /\ heap' = Append(heap, NewMetadata(req))
        /\ generation_cache' =
              IF stored THEN _manage_cache(inserted, cache_max_size) ELSE generation_cache
        /\ returned' = returned \cup {[outcome |-> "generated", image |-> image, meta |-> m]}
        /\ last_call' = [req |-> req, use_cache |-> use_cache, has_callback |-> has_callback,
                         outcome |-> "generated", meta |-> m,
                         oldest_keys |-> IF stored THEN Evicted(inserted, cache_max_size) ELSE <<>>,
                         failure |-> <<>>]
    /\ current_scheduler' = SchedulerAfter(current_scheduler, req.scheduler)
    /\ UNCHANGED <<qvars, kvars, cache_max_size>>

\* generate_image, a miss or a bypass, the pipeline raises (lines 547-562).
PipelineRaises(req, use_cache, has_callback) ==
    /\ n_calls < MaxCalls
    /\ n_calls' = n_calls + 1
    /\ ~(CacheConsulted(use_cache, has_callback, req.seed)
         /\ RequestKey(req) \in CacheKeys(generation_cache))
    /\ last_call' = [req |-> req, use_cache |-> use_cache, has_callback |-> has_callback,
                     outcome |-> "failed", meta |-> 0, oldest_keys |-> <<>>,
                     failure |-> <<FailureMetadata(req)>>]
    /\ current_scheduler' = SchedulerAfter(current_scheduler, req.scheduler)
    /\ UNCHANGED <<qvars, kvars, generation_cache, cache_max_size, heap, returned>>

\* generate_image called on its own, one action per way it returns.
GenerateHit(req, use_cache, has_callback) ==
    CachedReturn(req, use_cache, has_callback) /\ UNCHANGED rvars

GenerateOk(req, use_cache, has_callback) ==
    PipelineReturns(req, use_cache, has_callback) /\ UNCHANGED rvars

GenerateFails(req, use_cache, has_callback) ==
    PipelineRaises(req, use_cache, has_callback) /\ UNCHANGED rvars

\* clear_cache, line 683
clear_cache ==
    /\ generation_cache # <<>>
    /\ generation_cache' = <<>>
    /\ UNCHANGED <<qvars, kvars, rvars, cache_max_size, current_scheduler, heap, returned, last_call, n_calls>>

CNext ==
    \/ \E req \in CacheRequests, use_cache \in BOOLEAN, has_callback \in BOOLEAN :
          GenerateHit(req, use_cache, has_callback)
    \/ \E req \in CacheRequests, use_cache \in BOOLEAN, has_callback \in BOOLEAN :
          GenerateOk(req, use_cache, has_callback)
    \/ \E req \in CacheRequests, use_cache \in BOOLEAN, has_callback \in BOOLEAN :
          GenerateFails(req, use_cache, has_callback)
    \/ clear_cache

\* ------------------------------------------------------------ POST /generate
\* asyncio.Semaphore.release, run by `async with` on leaving the gated section.
release(value) == value + 1

\* The request is recorded as answered with `code` and the permit goes back.
ExitGated(r, code) ==
    /\ inline' = [inline EXCEPT ![r].pc = "done", ![r].code = code]
    /\ generation_semaphore' = release(generation_semaphore)

\* routes.generate_image with USE_QUEUE false, line 139: the request takes a
\* permit; while none is free it stays suspended in acquire().
InlineAcquire(req, use_cache) ==
    /\ Len(inline) < MaxRequests
    /\ generation_semaphore > 0
    /\ generation_semaphore' = generation_semaphore - 1
    /\ inline' = Append(inline, [req |-> req, use_cache |-> use_cache, pc |-> "gated", code |-> 0])
    /\ UNCHANGED <<qvars, cvars, kvars, is_loaded>>

\* Lines 143-150: the model is not loaded and load_model() returns False.
InlineLoadFails(r) ==
    /\ inline[r].pc = "gated"
    /\ ~is_loaded
    /\ ExitGated(r, 503)
    /\ UNCHANGED <<qvars, cvars, kvars, is_loaded>>

\* Lines 143-172: the model is or gets loaded, generate_image answers from the
\* cache.
InlineHit(r) ==
    /\ inline[r].pc = "gated"
    /\ is_loaded' = TRUE
    /\ CachedReturn(inline[r].req, inline[r].use_cache, FALSE)
    /\ ExitGated(r, 200)

\* Lines 143-172: generate_image runs the pipeline and returns success.
InlineOk(r) ==
    /\ inline[r].pc = "gated"
    /\ is_loaded' = TRUE
    /\ PipelineReturns(inline[r].req, inline[r].use_cache, FALSE)
    /\ ExitGated(r, 200)

\* Lines 143-165 and 173-178: generate_image returns success False.
InlineFails(r) ==
    /\ inline[r].pc = "gated"
    /\ is_loaded' = TRUE
    /\ PipelineRaises(inline[r].req, inline[r].use_cache, FALSE)
    /\ ExitGated(r, 500)

\* Lines 185-190: some other exception is raised inside the try block.
InlineUnexpected(r) ==
    /\ inline[r].pc = "gated"
    /\ ExitGated(r, 500)
    /\ UNCHANGED <<qvars, cvars, kvars, is_loaded>>

RNext ==
    \/ \E req \in CacheRequests, use_cache \in BOOLEAN : InlineAcquire(req, use_cache)
    \/ \E r \in 1..Len(inline) : InlineLoadFails(r)
    \/ \E r \in 1..Len(inline) : InlineHit(r)
    \/ \E r \in 1..Len(inline) : InlineOk(r)
    \/ \E r \in 1..Len(inline) : InlineFails(r)
    \/ \E r \in 1..Len(inline) : InlineUnexpected(r)
    \/ clear_cache

\* generate_image called with caching on and no callback, on InputRequests.
INext ==
    \/ \E req \in InputRequests : GenerateHit(req, TRUE, FALSE)
    \/ \E req \in InputRequests : GenerateOk(req, TRUE, FALSE)
    \/ \E req \in InputRequests : GenerateFails(req, TRUE, FALSE)
    \/ clear_cache

\* --------------------------------------------------------- key derivation
\* The parameter tuples _get_cache_key is applied to.
KeyParams ==
    [prompt : {<<"a">>, <<"a", "_", "b">>},
     negative_prompt : {<<"c">>, <<"b", "_", "c">>},
     width : {64, 512}, height : {512}, steps : {20}, guidance_scale : {75, 100},
     seed : {NoSeed, 42},
     style : {NoneText, <<"a", "n", "i", "m", "e">>},
     scheduler : {NoneText, Ddim}]

KeyInit ==
    /\ derive_in \in KeyParams \X KeyParams
    /\ derive_out = <<>>
    /\ generation_cache = <<>>
    /\ cache_max_size = MaxCacheSize
    /\ current_scheduler = Ddim
    /\ heap = <<>>
    /\ returned = {}
    /\ last_call = NoCall
    /\ n_calls = 0
    /\ jobs = <<>>
    /\ queue = <<>>
    /\ max_concurrency = 1
    /\ workers_started = FALSE
    /\ workers = <<>>
    /\ now = 0
    /\ max_concurrent_requests = 1
    /\ lifespan_done = FALSE
    /\ generation_semaphore = 1
    /\ inline = <<>>
    /\ is_loaded = FALSE

KeyOf(p) ==
    _get_cache_key(p.prompt, p.negative_prompt, p.width, p.height, p.steps,
                   p.guidance_scale, p.seed, p.style, p.scheduler)

\* _get_cache_key is applied to both tuples.
DeriveKeys ==
    /\ derive_out = <<>>
    /\ derive_out' = <<KeyOf(derive_in[1]), KeyOf(derive_in[2])>>
    /\ UNCHANGED <<qvars, cvars, rvars, derive_in>>

KNext == DeriveKeys

\* ------------------------------------------------------------------ queue
\* SpawnWorkers with the loop running once too often.
SpawnWorkersOffByOne(ws, n) == ws \o [i \in 1..(Max(n, 0) + 1) |-> IdleWorker]

\* SpawnWorkers creating no task at all.
SpawnNoWorkers(ws, n) == ws

\* for _ in range(self.max_concurrency): asyncio.create_task(self._worker())
SpawnWorkers(ws, n) == ws \o [i \in 1..Max(n, 0) |-> IdleWorker]

\* start_workers without the _workers_started test.
start_workers_unguarded(started, ws, n) == SpawnWorkers(ws, n)

\* InMemoryJobQueue.start_workers: the pool after the call.
start_workers(started, ws, n) ==
    IF started THEN ws ELSE SpawnWorkers(ws, n)

\* InMemoryJobQueue.__init__ as called at import (job_queue.py line 93), with
\* the configured settings.max_concurrent_requests; the generator is as
\* constructed and stays so.
Init ==
    /\ jobs = <<>>
    /\ queue = <<>>
    /\ max_concurrency = 1
    /\ workers_started = FALSE
    /\ workers = <<>>
    /\ now = 0
    /\ max_concurrent_requests \in 0..MaxWorkers
    /\ lifespan_done = FALSE
    /\ generation_cache = <<>>
    /\ cache_max_size = MaxCacheSize
    /\ current_scheduler = Ddim
    /\ heap = <<>>
    /\ returned = {}
    /\ last_call = NoCall
    /\ n_calls = 0
    /\ derive_in = <<>>
    /\ derive_out = <<>>
    /\ generation_semaphore = max_concurrent_requests
    /\ inline = <<>>
    /\ is_loaded = FALSE

\* time.time() does not go backwards between two reads.
Tick ==
    /\ now < MaxTime
    /\ now' = now + 1
    /\ UNCHANGED <<cvars, kvars, rvars, jobs, queue, max_concurrency, workers_started, workers,
                   max_concurrent_requests, lifespan_done>>

\* main.lifespan, line 70: the size the worker pool is given.
QueueConcurrency == Max(1, max_concurrent_requests)

\* main.lifespan, startup, with settings.enable_generation_queue set.
Lifespan ==
    /\ ~lifespan_done
    /\ lifespan_done' = TRUE
    /\ max_concurrency' = QueueConcurrency
    /\ workers' = start_workers(workers_started, workers, max_concurrency')
    /\ workers_started' = TRUE
    /\ UNCHANGED <<cvars, kvars, rvars, jobs, queue, now, max_concurrent_requests>>

\* A direct call of InMemoryJobQueue.start_workers.
StartWorkers ==
    /\ workers' = start_workers(workers_started, workers, max_concurrency)
    /\ workers_started' = TRUE
    /\ UNCHANGED <<cvars, kvars, rvars, jobs, queue, max_concurrency, now, max_concurrent_requests, lifespan_done>>

\* InMemoryJobQueue.submit
Submit(fn, seed) ==
    /\ Len(jobs) < MaxJobs
    /\ jobs' = Append(jobs, NewJob(fn, seed, now))
    /\ queue' = Append(queue, Len(jobs) + 1)
    /\ workers' = start_workers(workers_started, workers, max_concurrency)
    /\ workers_started' = TRUE
    /\ UNCHANGED <<cvars, kvars, rvars, max_concurrency, now, max_concurrent_requests, lifespan_done>>

\* The job is taken but its status is not updated.
OnDequeueStillPending(job, t) == [job EXCEPT !.started_at = t]

\* _worker, lines 44-47: a job is taken from the queue and marked running.
OnDequeue(job, t) == [job EXCEPT !.status = RUNNING, !.started_at = t]

\* The result is stored but the status is left as it was.
OnReturnStillRunning(job, res, t) ==
    [job EXCEPT !.result = res, !.finished_at = t]

\* _worker, lines 53-54 and 59: the target returned res.
OnReturn(job, res, t) ==
    [job EXCEPT !.result = res, !.status = COMPLETED, !.finished_at = t]

\* OnException without the finally block's timestamp.
OnExceptionUnstamped(job, msg, t) ==
    [job EXCEPT !.error = msg, !.status = FAILED]

\* OnException with the job marked cancelled instead of failed.
OnExceptionCancelled(job, msg, t) ==
    [job EXCEPT !.error = msg, !.status = CANCELLED, !.finished_at = t]

\* _worker, lines 55-57 and 59: the target raised an Exception e, msg = str(e).
OnException(job, msg, t) ==
    [job EXCEPT !.error = msg, !.status = FAILED, !.finished_at = t]

\* _worker._progress, line 50
ClampProgress(pct) == Max(0, Min(100, pct))

\* Whether fn(**{"progress_callback": _progress}) binds: _run_generation
\* (routes.py line 122) declares no parameters, so the call raises TypeError.
AcceptsProgressCallback(fn) == fn # RouteFn

\* The exception escapes _worker and ends the worker's task.
ExitAfterException == [pc |-> "dead", job |-> 0]

\* _worker, lines 43 and 55-60: the exception is caught, finally runs and the
\* while loop goes back to queue.get().
LoopAfterException == IdleWorker

\* queue.get() handing out the newest item.
queue_get_lifo(q) == [item |-> q[Len(q)], rest |-> SubSeq(q, 1, Len(q) - 1)]

\* queue.get() returning the oldest item without removing it.
queue_peek(q) == [item |-> Head(q), rest |-> q]

\* _worker, line 44: asyncio.Queue.get() removes and returns the oldest item.
queue_get(q) == [item |-> Head(q), rest |-> Tail(q)]

WorkerDequeue(w) ==
    /\ workers[w].pc = "get"
    /\ queue # <<>>
    /\ LET j == queue_get(queue).item IN
        /\ queue' = queue_get(queue).rest
        /\ jobs' = [jobs EXCEPT ![j] = OnDequeue(jobs[j], now)]
        /\ workers' = [workers EXCEPT ![w] = [pc |-> "claimed", job |-> j]]
    /\ UNCHANGED <<cvars, kvars, rvars, max_concurrency, workers_started, now, max_concurrent_requests, lifespan_done>>

\* _worker, lines 49-52: the callback is injected and the target is called.
WorkerInvoke(w) ==
    /\ workers[w].pc = "claimed"
    /\ LET j == workers[w].job IN
        IF AcceptsProgressCallback(jobs[j].fn)
        THEN /\ workers' = [workers EXCEPT ![w].pc = "awaiting"]
             /\ UNCHANGED jobs
        ELSE /\ jobs' = [jobs EXCEPT ![j] = OnException(jobs[j], TypeErrorMessage, now)]
             /\ workers' = [workers EXCEPT ![w] = LoopAfterException]
    /\ UNCHANGED <<cvars, kvars, rvars, queue, max_concurrency, workers_started, now, max_concurrent_requests, lifespan_done>>

\* The report is written to every job that is running.
SetProgressOfRunning(js, j, pct) ==
    [k \in DOMAIN js |->
        IF js[k].status = RUNNING THEN [js[k] EXCEPT !.progress_pct = ClampProgress(pct)]
        ELSE js[k]]

\* The report is written to every job in the map.
SetProgressOfAll(js, j, pct) ==
    [k \in DOMAIN js |-> [js[k] EXCEPT !.progress_pct = ClampProgress(pct)]]

\* _worker._progress, lines 49-50: the closure writes to the job its worker
\* holds while the target runs.
SetProgress(js, j, pct) == [js EXCEPT ![j].progress_pct = ClampProgress(pct)]

\* The running target calls the injected callback.
ProgressCallback(w, pct) ==
    /\ workers[w].pc = "awaiting"
    /\ LET j == workers[w].job IN
        jobs' = SetProgress(jobs, j, pct)
    /\ UNCHANGED <<cvars, kvars, rvars, queue, max_concurrency, workers_started, workers, now,
                   max_concurrent_requests, lifespan_done>>

\* The target returns what generate_image returned.
TargetReturns(w) ==
    /\ workers[w].pc = "awaiting"
    /\ LET j == workers[w].job IN
        /\ jobs[j].fn \in {"gen_ok", "gen_fail"}
        /\ jobs' = [jobs EXCEPT ![j] =
                      OnReturn(jobs[j], GenerateResult(jobs[j].fn, jobs[j].seed), now)]
    /\ workers' = [workers EXCEPT ![w] = IdleWorker]
    /\ UNCHANGED <<cvars, kvars, rvars, queue, max_concurrency, workers_started, now, max_concurrent_requests, lifespan_done>>

\* The target raises.
TargetRaises(w, msg) ==
    /\ workers[w].pc = "awaiting"
    /\ LET j == workers[w].job IN
        /\ jobs[j].fn = "raises"
        /\ jobs' = [jobs EXCEPT ![j] = OnException(jobs[j], msg, now)]
    /\ workers' = [workers EXCEPT ![w] = LoopAfterException]
    /\ UNCHANGED <<cvars, kvars, rvars, queue, max_concurrency, workers_started, now, max_concurrent_requests, lifespan_done>>

\* InMemoryJobQueue.get: jobs.get(job_id); an Optional is a sequence of at most
\* one element, <<>> standing for None.
get(job_id) == IF job_id \in DOMAIN jobs THEN <<jobs[job_id]>> ELSE <<>>

\* status that also reports a failed job as missing.
status_hides_failed(job_id) ==
    IF get(job_id) = <<>> \/ get(job_id)[1].status = FAILED THEN <<>>
    ELSE <<[id |-> job_id, status |-> get(job_id)[1].status]>>

\* InMemoryJobQueue.status: None for an unknown id, else a snapshot of the job.
status(job_id) ==
    LET job == get(job_id) IN
    IF job = <<>> THEN <<>>
    ELSE <<[id |-> job_id,
            status |-> job[1].status,
            progress |-> job[1].progress_pct,
            result |-> job[1].result,
            error |-> job[1].error,
            created_at |-> job[1].created_at,
            started_at |-> job[1].started_at,
            finished_at |-> job[1].finished_at]>>

\* GET /job/{job_id}: 404 when status() is falsy, else the snapshot with 200.
get_job_status(job_id) == IF status(job_id) = <<>> THEN 404 ELSE 200

Next ==
    \/ Lifespan
    \/ StartWorkers
    \/ \E fn \in JobFns, seed \in QueueSeeds : Submit(fn, seed)
    \/ \E w \in 1..Len(workers) : WorkerDequeue(w)
    \/ \E w \in 1..Len(workers) : WorkerInvoke(w)
    \/ \E w \in 1..Len(workers), pct \in ProgressArgs : ProgressCallback(w, pct)
    \/ \E w \in 1..Len(workers) : TargetReturns(w)
    \/ \E w \in 1..Len(workers), msg \in RaisedMessages : TargetRaises(w, msg)

\* The job queue: submissions, pool starts and the workers.  No code reads a
\* timestamp back, so the clock stands still here; SpecTimed lets it advance.
Spec == Init /\ [][Next]_vars

\* The queue with the event loop scheduling every worker task that can run
\* (asyncio runs ready tasks in turn) and every invoked target returning or
\* raising in the end.
SpecFair ==
    /\ Init
    /\ [][Next]_vars
    /\ \A w \in 1..MaxWorkers :
          /\ WF_vars(w \in DOMAIN workers /\ WorkerDequeue(w))
          /\ WF_vars(w \in DOMAIN workers /\ WorkerInvoke(w))
          /\ WF_vars(/\ w \in DOMAIN workers
                     /\ \/ TargetReturns(w)
                        \/ \E msg \in RaisedMessages : TargetRaises(w, msg))

\* InMemoryJobQueue.submit while fewer than MaxTimedJobs jobs were submitted.
TimedSubmit(fn, seed) == Len(jobs) < MaxTimedJobs /\ Submit(fn, seed)

TimedNext ==
    \/ Tick
    \/ Lifespan
    \/ StartWorkers
    \/ \E fn \in JobFns, seed \in QueueSeeds : TimedSubmit(fn, seed)
    \/ \E w \in 1..Len(workers) : WorkerDequeue(w)
    \/ \E w \in 1..Len(workers) : WorkerInvoke(w)
    \/ \E w \in 1..Len(workers), pct \in ProgressArgs : ProgressCallback(w, pct)
    \/ \E w \in 1..Len(workers) : TargetReturns(w)
    \/ \E w \in 1..Len(workers), msg \in RaisedMessages : TargetRaises(w, msg)

\* The queue with the clock advancing between any two steps.
SpecTimed == Init /\ [][TimedNext]_vars

\* The generation cache: generate_image calls and clear_cache.
SpecCache == CacheInit /\ [][CNext]_vars

\* _get_cache_key on pairs of parameter tuples.
SpecKey == KeyInit /\ [][KNext]_vars

\* The cache under calls that differ in inputs the key leaves out.
SpecInputs == CacheInit /\ [][INext]_vars

\* POST /generate served inline (enable_generation_queue false, the default)
\* and POST /cache/clear.
SpecRoute == Init /\ [][RNext]_vars

\* ----------------------------------------------------------------- claims
JobIds == 1..Len(jobs)
Terminal(j) == jobs[j].status \in {COMPLETED, FAILED}
RunningJobs == {j \in JobIds : jobs[j].status = RUNNING}
KeySeq(cache) == [i \in 1..Len(cache) |-> cache[i].key]
LastN(seq, n) == SubSeq(seq, Max(Len(seq) - n, 0) + 1, Len(seq))
IsCall == n_calls' = n_calls + 1

\* C1: whatever cache_max_size >= 0 is configured (0 included), the cache never
\* holds more than cache_max_size entries once an inserting call has returned.
C1_CacheBound == Len(generation_cache) <= cache_max_size

\* C2: a job's status only ever changes Pending -> Running, Running -> Completed
\* or Running -> Failed; a new job starts Pending, no job is dropped, and no job
\* is ever Cancelled.
C2_StatusTransitions ==
    /\ [](\A j \in JobIds : jobs[j].status # CANCELLED)
    /\ [][/\ Len(jobs') >= Len(jobs)
          /\ \A j \in 1..Len(jobs') :
                IF j \in JobIds
                THEN jobs'[j].status # jobs[j].status =>
                        <<jobs[j].status, jobs'[j].status>> \in
                            {<<PENDING, RUNNING>>, <<RUNNING, COMPLETED>>, <<RUNNING, FAILED>>}
                ELSE jobs'[j].status = PENDING]_vars

\* C2 witness: one job has completed and another has failed.
C2_Witness ==
    /\ \E j \in JobIds : jobs[j].status = COMPLETED
    /\ \E j \in JobIds : jobs[j].status = FAILED

\* C3: the number of Running jobs never exceeds the number of workers, which
\* never exceeds max_concurrency, and every Running job is held by exactly one
\* worker (a worker holds one job at a time).
C3_ConcurrencyBound ==
    /\ Cardinality(RunningJobs) <= Len(workers)
    /\ Len(workers) <= max_concurrency
    /\ \A j \in RunningJobs :
          Cardinality({w \in 1..Len(workers) : workers[w].pc # "get" /\ workers[w].job = j}) = 1

\* C3 witness: every worker holds a Running job while another job waits.
C3_Witness ==
    /\ Len(workers) >= 1
    /\ Cardinality(RunningJobs) = Len(workers)
    /\ queue # <<>>

\* C4: the number of worker tasks changes only in the first start_workers call
\* (the guard still unset, no worker yet), where it becomes the max_concurrency
\* of that call; no later submit, start_workers or lifespan call changes it.
C4_StartOnce ==
    /\ [](~workers_started => Len(workers) = 0)
    /\ [][Len(workers') # Len(workers) =>
            /\ ~workers_started
            /\ Len(workers) = 0
            /\ Len(workers') = max_concurrency']_vars

\* C4 witness: the pool was started by a submit with max_concurrency 1, the
\* lifespan then raised max_concurrency, more was submitted, and the pool still
\* has its one worker.
C4_Witness ==
    /\ workers_started
    /\ lifespan_done
    /\ Len(workers) = 1
    /\ max_concurrency > 1
    /\ Len(jobs) >= 2

\* C5: a generate_image call with seed None is not a cache hit and leaves the
\* cache, and the metadata of every entry in it, as it was.
C5_SeedlessBypass ==
    [][(IsCall /\ last_call'.req.seed = NoSeed) =>
          /\ last_call'.outcome # "hit"
          /\ generation_cache' = generation_cache
          /\ \A i \in 1..Len(generation_cache) :
                heap'[generation_cache[i].meta] = heap[generation_cache[i].meta]]_vars

\* C5 witness: a seedless call with caching on and no callback has generated
\* an image while the cache holds an entry for the same prompt.
C5_Witness ==
    /\ last_call.outcome = "generated"
    /\ last_call.req.seed = NoSeed
    /\ last_call.use_cache
    /\ ~last_call.has_callback
    /\ \E i \in 1..Len(generation_cache) : generation_cache[i].image[2] = last_call.req.prompt

\* C6: a job whose target returned a result with success = False ends Failed
\* with the reason in its error field.
C6_ReturnedFailureIsFailed ==
    \A j \in JobIds :
        (jobs[j].fn = "gen_fail" /\ Terminal(j)) =>
            (jobs[j].status = FAILED /\ jobs[j].error # None)

\* C7: a job submitted by the /generate route in queued mode ends Completed
\* with the generated image and the requested seed in its result.
C7_QueuedRouteJobCompletes ==
    \A j \in JobIds :
        (jobs[j].fn = RouteFn /\ Terminal(j)) =>
            /\ jobs[j].status = COMPLETED
            /\ ~jobs[j].result.isNone
            /\ jobs[j].result.image # ""
            /\ jobs[j].result.seed = jobs[j].seed

C9_CachedOnlyOnRetrieval ==
    /\ \A i \in 1..Len(generation_cache) :
          /\ ~heap[generation_cache[i].meta].cached
          /\ heap[generation_cache[i].meta].generation_time = "generation"
    /\ \A r \in returned : r.outcome = "generated" => ~heap[r.meta].cached

\* C10: two parameter tuples have the same key exactly when they are equal
\* field by field.
C10_KeyDistinguishes ==
    derive_out # <<>> =>
        ((derive_in[1] = derive_in[2]) <=> (derive_out[1] = derive_out[2]))
SubmitEnabled == ENABLED (\E fn \in JobFns, seed \in QueueSeeds : Submit(fn, seed))

\* C11: submit is never blocked by the jobs or workers (it can run in every
\* state), and the step that adds a job leaves it in the map under a new id,
\* in the queue exactly once, Pending, with started_at, finished_at, result
\* and error unset and progress 0.
C11_SubmitNonBlocking ==
    /\ [](Len(jobs) < MaxJobs => SubmitEnabled)
    /\ [][Len(jobs') # Len(jobs) =>
            LET id == Len(jobs') IN
            /\ Len(jobs') = Len(jobs) + 1
            /\ id \notin JobIds
            /\ Cardinality({i \in 1..Len(queue') : queue'[i] = id}) = 1
            /\ jobs'[id].status = PENDING
            /\ jobs'[id].started_at = NoTime
            /\ jobs'[id].finished_at = NoTime
            /\ jobs'[id].result = NoResult
            /\ jobs'[id].error = None
            /\ jobs'[id].progress_pct = 0]_vars

\* C11 witness: a job was submitted and is still pending in the queue while
\* the only worker holds an earlier job.
C11_Witness ==
    /\ Len(jobs) = 2
    /\ Len(workers) = 1
    /\ workers[1].pc = "awaiting"
    /\ workers[1].job = 1
    /\ jobs[2].status = PENDING
    /\ queue = <<2>>
\* Ids a client may poll: every id submit can return and one it never returns.
PollIds == 1..(MaxJobs + 1)

\* C12: status(id) is None (the route answers 404) exactly for the ids submit
\* never returned; an id once returned resolves in every later state, the map
\* never losing an entry; and a Failed job is reported as a snapshot whose
\* status is Failed, never as not found.
C12_NotFoundExact ==
    /\ [](\A id \in PollIds :
            /\ (status(id) = <<>>) <=> (id \notin JobIds)
            /\ (get_job_status(id) = 404) <=> (id \notin JobIds)
            /\ (id \in JobIds /\ jobs[id].status = FAILED) =>
                  /\ status(id) # <<>>
                  /\ status(id)[1].id = id
                  /\ status(id)[1].status = FAILED)
    /\ [][\A id \in JobIds : id \in DOMAIN jobs' /\ status(id)' # <<>>]_vars

\* C12 witness: one job has failed, another id was returned, and a third id
\* was never returned.
C12_Witness ==
    /\ Len(jobs) = 2
    /\ jobs[1].status = FAILED
    /\ status(1) # <<>>
    /\ status(3) = <<>>
LiveWorkers == {w \in 1..Len(workers) : workers[w].pc \in {"get", "claimed", "awaiting"}}

C14_FailureRecord ==
    /\ [](\A j \in JobIds : jobs[j].status = FAILED =>
            /\ jobs[j].error # None
            /\ jobs[j].error # ""
            /\ jobs[j].finished_at # NoTime)
    /\ [][\A j \in JobIds :
            (jobs'[j].status = FAILED /\ jobs[j].status # FAILED)
            => jobs[j].status = RUNNING]_vars
\* C15: in every state a job's result is set only if it is Completed, its error
\* is set only if it is Failed, and no job has both.
C15_ResultErrorPresence ==
    \A j \in JobIds :
        /\ ~jobs[j].result.isNone => jobs[j].status = COMPLETED
        /\ jobs[j].error # None => jobs[j].status = FAILED
        /\ ~(~jobs[j].result.isNone /\ jobs[j].error # None)
        /\ status(j)[1].result # NoResult => status(j)[1].status = COMPLETED
        /\ status(j)[1].error # None => status(j)[1].status = FAILED

\* C15 witness: one job completed with a result while another failed with an
\* error.
C15_Witness ==
    \E i, j \in JobIds :
        /\ jobs[i].status = COMPLETED /\ ~jobs[i].result.isNone /\ jobs[i].error = None
        /\ jobs[j].status = FAILED /\ jobs[j].error # None /\ jobs[j].result.isNone

\* C16: whatever integers the running target passes to the progress callback,
\* the job's progress stays within 0..100 and never decreases.
C16_ProgressMonotone ==
    /\ [](\A j \in JobIds : jobs[j].progress_pct \in 0..100)
    /\ [][\A j \in JobIds : jobs'[j].progress_pct >= jobs[j].progress_pct]_vars
Gated == {r \in 1..Len(inline) : inline[r].pc = "gated"}

\* C17: a fixed-seed request whose key is already in the cache is answered by
\* the lookup before it is submitted to the queue or takes a semaphore permit:
\* the step that admits it creates no job, takes no permit and answers it.
C17_LookupBeforeAdmission ==
    [][Len(inline') > Len(inline) =>
          LET new == inline'[Len(inline')] IN
          (/\ CacheConsulted(new.use_cache, FALSE, new.req.seed)
           /\ RequestKey(new.req) \in CacheKeys(generation_cache))
          => /\ generation_semaphore' = generation_semaphore
             /\ Len(jobs') = Len(jobs)
             /\ new.pc = "done"]_vars

\* C19: with the semaphore sized to max_concurrent_requests, at most that many
\* inline requests are inside the gated section, every way out of the section
\* gives the permit back, permits held plus permits free equal
\* max_concurrent_requests, and that ceiling is the bound the queue's worker
\* pool is given.
C19_InlineGating ==
    /\ [](/\ Cardinality(Gated) <= max_concurrent_requests
          /\ Cardinality(Gated) + generation_semaphore = max_concurrent_requests
          /\ max_concurrent_requests = QueueConcurrency)
    /\ [][\A r \in Gated : inline'[r].pc = "done" =>
            generation_semaphore' = generation_semaphore + 1]_vars
\* C18: a generate_image call with an explicit seed and caching in effect,
\* made while its key is in the cache (stored by an earlier successful
\* generation and neither evicted nor cleared), returns the image that
\* generation stored with metadata.cached true, and runs no pipeline: no new
\* result is built and the cache is left as it is.
C18_RepeatServedFromCache ==
    [][(/\ IsCall
        /\ CacheConsulted(last_call'.use_cache, last_call'.has_callback, last_call'.req.seed)
        /\ RequestKey(last_call'.req) \in CacheKeys(generation_cache))
       => LET e == generation_cache[CacheIndex(generation_cache, RequestKey(last_call'.req))] IN
          /\ last_call'.outcome = "hit"
          /\ [outcome |-> "generated", image |-> e.image, meta |-> e.meta] \in returned
          /\ e.image[2] = last_call'.req.prompt
          /\ e.image[3] = last_call'.req.seed
          /\ [outcome |-> "hit", image |-> e.image, meta |-> e.meta] \in returned'
          /\ heap'[e.meta].cached = TRUE
          /\ Len(heap') = Len(heap)
          /\ generation_cache' = generation_cache]_vars

\* C18 witness: the second of two identical fixed-seed calls was a hit.
C18_Witness ==
    /\ n_calls = 2
    /\ last_call.outcome = "hit"
    /\ last_call.req.seed = 7
    /\ heap[last_call.meta].cached = TRUE
    /\ Len(heap) = 1
C21_FifoDispatch ==
    /\ \A a, b \in JobIds : (a < b /\ jobs[b].status # PENDING) => jobs[a].status # PENDING
    /\ \A i, k \in 1..Len(queue) : i < k => queue[i] < queue[k]

\* C21 witness: two workers have taken both jobs while a pool of that size is
\* running.
C21_Witness ==
    /\ Len(workers) = 2
    /\ Len(jobs) = 2
    /\ workers[2].job = 1
    /\ workers[1].job = 2
    /\ jobs[1].status = RUNNING
    /\ jobs[2].status = RUNNING

Holders(j) == {w \in 1..Len(workers) : workers[w].job = j}

\* C22: a job is taken by at most one worker and invoked at most once: no two
\* workers hold the same job, a job enters the queue only when it is submitted,
\* a worker takes only a Pending job out of the queue, it invokes the job it
\* holds once and then lets go of it for good, and a Failed or Completed job
\* is neither held nor queued again.
C22_SingleClaim ==
    /\ [](\A j \in JobIds :
            /\ Cardinality(Holders(j)) <= 1
            /\ Cardinality({i \in 1..Len(queue) : queue[i] = j}) <= 1
            /\ Terminal(j) => (Holders(j) = {} /\ \A i \in 1..Len(queue) : queue[i] # j)
            /\ jobs[j].status = RUNNING => Cardinality(Holders(j)) = 1)
    /\ [][/\ \A i \in 1..Len(queue') :
                (\A k \in 1..Len(queue) : queue[k] # queue'[i]) => queue'[i] \notin JobIds
          /\ \A w \in 1..Len(workers) :
                /\ (workers'[w].job # workers[w].job /\ workers'[w].job # 0)
                      => /\ jobs[workers'[w].job].status = PENDING
                         /\ workers'[w].pc = "claimed"
                         /\ Holders(workers'[w].job) = {}
                /\ (workers'[w].pc = "claimed" /\ workers[w].pc # "claimed")
                      => (workers[w].pc = "get" /\ workers'[w].job # workers[w].job)
                /\ (workers'[w].pc = "awaiting" /\ workers[w].pc # "awaiting")
                      => (workers[w].pc = "claimed" /\ workers'[w].job = workers[w].job)
                /\ (workers[w].pc = "awaiting" /\ workers'[w].pc # "awaiting")
                      => jobs'[workers[w].job].status \in {COMPLETED, FAILED}]_vars

\* C22 witness: with two workers, one job has failed and is held by nobody
\* while the other worker runs the second job.
C22_Witness ==
    /\ Len(workers) = 2
    /\ Len(jobs) = 2
    /\ jobs[1].status = FAILED
    /\ jobs[1].error = TypeErrorMessage
    /\ jobs[2].status = RUNNING
    /\ queue = <<>>
Changed == {k \in JobIds : jobs'[k] # jobs[k]}

\* C24: every step changes the record of at most one job already in the map,
\* and that job is the one held by a worker in that step; all other records
\* keep their status, progress, result, error and timestamps, also with
\* several workers running and when the job fails.
C24_PerJobIsolation ==
    [][/\ Cardinality(Changed) <= 1
       /\ \A k \in Changed :
            \E w \in 1..Len(workers) : workers[w].job = k \/ workers'[w].job = k]_vars

\* C24 witness: two workers ran two jobs side by side; one job failed while
\* the other is still running with the progress it reported.
C24_Witness ==
    /\ Len(workers) = 2
    /\ Len(jobs) = 2
    /\ jobs[1].status = RUNNING
    /\ jobs[1].progress_pct = 40
    /\ jobs[2].status = FAILED
    /\ jobs[2].progress_pct = 100

\* C28: once a job is Completed or Failed its record never changes again,
\* whatever the workers do afterwards, and the step that completes or fails a
\* job leaves its progress as it was.
C28_TerminalFrozen ==
    [][\A j \in JobIds :
          /\ Terminal(j) => jobs'[j] = jobs[j]
          /\ jobs'[j].status \in {COMPLETED, FAILED} => jobs'[j].progress_pct = jobs[j].progress_pct]_vars

\* C28 witness: the only worker completed the first job at progress 40 and
\* then ran the second job, which reported 100.
C28_Witness ==
    /\ Len(workers) = 1
    /\ Len(jobs) = 2
    /\ jobs[1].status = COMPLETED
    /\ jobs[1].progress_pct = 40
    /\ jobs[2].status = RUNNING
    /\ jobs[2].progress_pct = 100
\* C30: in every state the queue holds exactly the jobs whose status is
\* Pending, each once; every queued job is in the job map and no Running,
\* Completed or Failed job is queued.
C30_QueueMapConsistency ==
    /\ \A i \in 1..Len(queue) : queue[i] \in JobIds /\ jobs[queue[i]].status = PENDING
    /\ \A j \in JobIds :
          Cardinality({i \in 1..Len(queue) : queue[i] = j})
              = IF jobs[j].status = PENDING THEN 1 ELSE 0

\* C30 witness: one job is running, taken out of the queue, while the job
\* submitted after it waits in the queue.
C30_Witness ==
    /\ Len(jobs) = 2
    /\ jobs[1].status = RUNNING
    /\ jobs[1].progress_pct = 40
    /\ jobs[2].status = PENDING
    /\ queue = <<2>>
\* C25: a generate_image call that ends in failure leaves generation_cache
\* exactly as it was, whatever its seed and use_cache, and a key enters the
\* cache only in a call that looked the key up, missed and then generated
\* successfully.
C25_NoCacheWriteOnFailure ==
    [][IsCall =>
          /\ last_call'.outcome = "failed" => generation_cache' = generation_cache
          /\ (CacheKeys(generation_cache') \ CacheKeys(generation_cache) # {}) =>
                /\ last_call'.outcome = "generated"
                /\ CacheConsulted(last_call'.use_cache, last_call'.has_callback, last_call'.req.seed)
                /\ RequestKey(last_call'.req) \notin CacheKeys(generation_cache)
                /\ CacheKeys(generation_cache') \ CacheKeys(generation_cache)
                      = {RequestKey(last_call'.req)}]_vars

\* C25 witness: a fixed-seed call with caching on failed while the cache held
\* another request's entry and not its own.
C25_Witness ==
    /\ last_call.outcome = "failed"
    /\ last_call.use_cache
    /\ ~last_call.has_callback
    /\ last_call.req.seed = 7
    /\ Len(generation_cache) = 1
    /\ RequestKey(last_call.req) \notin CacheKeys(generation_cache)
ReturnedMetadata ==
    IF last_call.outcome = "failed" THEN last_call.failure[1] ELSE heap[last_call.meta]

Uncached == last_call'.has_callback \/ ~last_call'.use_cache

\* C29 as stated: every generate_image call given a progress callback, or
\* use_cache false, neither reads nor writes the cache (it is no hit, no stored
\* metadata is touched, generation_cache is unchanged) and the metadata it
\* returns has cached = false.
C29_CallbackDisablesCaching ==
    [][(IsCall /\ Uncached) =>
          /\ generation_cache' = generation_cache
          /\ last_call'.outcome # "hit"
          /\ \A m \in 1..Len(heap) : heap'[m] = heap[m]
          /\ "cached" \in DOMAIN ReturnedMetadata'
          /\ ReturnedMetadata'.cached = FALSE]_vars

\* C29 amended: such a call neither reads nor writes the cache; when it
\* succeeds its metadata has cached = false, and when it fails its metadata has
\* no cached entry.
C29_CallbackDisablesCachingOnSuccess ==
    [][(IsCall /\ Uncached) =>
          /\ generation_cache' = generation_cache
          /\ last_call'.outcome \in {"generated", "failed"}
          /\ \A m \in 1..Len(heap) : heap'[m] = heap[m]
          /\ last_call'.outcome = "generated" =>
                ("cached" \in DOMAIN ReturnedMetadata' /\ ReturnedMetadata'.cached = FALSE)
          /\ last_call'.outcome = "failed" => "cached" \notin DOMAIN ReturnedMetadata']_vars

\* C29 witness: a fixed-seed call with a progress callback generated anew
\* although an identical entry was cached, and the cache kept only that entry.
C29_Witness ==
    /\ last_call.has_callback
    /\ last_call.use_cache
    /\ last_call.req.seed = 7
    /\ last_call.outcome = "generated"
    /\ KeySeq(generation_cache) = <<RequestKey(last_call.req)>>
    /\ generation_cache[1].meta # last_call.meta
    /\ heap[last_call.meta].cached = FALSE
\* C27: a cache hit is returned only to a request whose output-affecting inputs
\* equal those of the request that filled the entry: the image a hit returns
\* is the image this request's own generation mode, init_image and active
\* scheduler produce.
C27_KeyCoversInputs ==
    [][(IsCall /\ last_call'.outcome = "hit") =>
          \E r \in returned' :
             /\ r.outcome = "hit"
             /\ r.meta = last_call'.meta
             /\ r.image = Render(last_call'.req,
                                 SchedulerAfter(current_scheduler, last_call'.req.scheduler))]_vars
====
